---- MODULE Spec2Model ----
(***************************************************************************)
(* HlsPlayer: a React component binding one hls.js engine instance to one  *)
(* <video> element.  The model follows the component's two passive effects *)
(* (initHls/destroyHls with its cleanup, and the video-ref update), the    *)
(* four hls.js event handlers registered by initHls, and the promise       *)
(* returned by video.play().                                               *)
(*                                                                         *)
(* React's scheduling: a commit (mount, re-render, unmount) queues the     *)
(* passive effects whose dependency lists changed; the queue is flushed    *)
(* later, cleanups first, then effect bodies in declaration order.  Engine *)
(* events and promise settlements are separate tasks of the same thread:   *)
(* they run between commits and flushes, never inside a flush.  A handler  *)
(* reads only its closure, hlsRef and videoRef.current; a re-render commit *)
(* writes none of these, so a task running between a re-render commit and  *)
(* its flush behaves as the same task run just before the commit, and the  *)
(* model lets tasks run before the commit only.  An unmount commit clears  *)
(* videoRef.current, so tasks between it and its flush are modelled.       *)
(***************************************************************************)
EXTENDS Integers, Sequences, FiniteSets, TLC

\* ------------------------------------------------------------------ bounds
MaxBinds == 3      \* runs of the first effect (bind cycles) explored
MaxPlays == 1      \* play() promises that may be unsettled at once

\* ------------------------------------------------------------ input values
Srcs == {"a.m3u8", "b.m3u8"}
NoRef == "none"
Internal == "internal"
ExternalRefs == {"refA", "refB"}
Handles == ExternalRefs \cup {Internal}
Omitted == "omitted"
ConfigIds == {Omitted, "cfg1", "cfg2"}
NoCallbacks == 0
CallbackIds == {NoCallbacks, 1, 2}

\* Attributes a caller may pass through to the video element (autoPlay is
\* not one of them: the component takes it out of ...props).
AttrNames == {"controls", "loop", "muted", "playsInline", "preload"}
AttrValues == {"true", "false"}
RestPropsSet == UNION {[S -> AttrValues] : S \in SUBSET AttrNames}
NoAttrs == [k \in {} |-> "true"]

Engines == 1..MaxBinds
NoEngine == 0
NoVideo == "null"
Video == "video"

\* The props the effects read: src, autoPlay, the identity of hlsConfig, the
\* playerRef object and the identity of the set of on* callbacks.
PropsSet ==
  [src : Srcs, autoPlay : BOOLEAN, hlsConfig : ConfigIds,
   playerRef : ExternalRefs \cup {NoRef}, cb : CallbackIds]

FirstProps ==
  [src |-> "a.m3u8", autoPlay |-> FALSE, hlsConfig |-> Omitted,
   playerRef |-> NoRef, cb |-> NoCallbacks]

ErrorTypes == {"networkError", "mediaError", "otherError"}
ErrorData == [fatal : BOOLEAN, type : ErrorTypes]
Payloads == {"levels"}
Levels == {0}

VARIABLES
  hlsSupported,  \* Hls.isSupported() in this browser
  canPlay,       \* what canPlayType("application/vnd.apple.mpegurl") answers
                 \* where initHls asks (it does not ask when hlsSupported)
  pc,            \* "init", "idle", "pending", "flush", "unmounted"
  todo,          \* passive-effect steps still to run in this flush
  props,         \* props of the last render
  bound,         \* props captured by the closure of the last first-effect run
  videoRef,      \* videoRef.current
  depVideo,      \* videoRef.current as read by the last render (effect-2 dep)
  videoSrc,      \* the video element's src attribute
  hlsRef,        \* hlsRef.current
  eng,           \* the engine instances constructed so far
  handle,        \* .current of internalPlayerRef and of the caller's refs
  binds,         \* runs of the first effect so far
  capErrors,     \* console.error("HLS is not supported in this browser") count
  plays,         \* unsettled play() promises: TRUE when .catch is attached
  uncaught,      \* an exception or unhandled rejection left the component
  calls,         \* calls made by the last task (event handler or effect flush)
  rest,          \* ...props: the caller's attributes for the video element
  rendered       \* the attributes of the rendered video element

vars ==
  <<hlsSupported, canPlay, pc, todo, props, bound, videoRef, depVideo,
    videoSrc, hlsRef, eng, handle, binds, capErrors, plays, uncaught, calls,
    rest, rendered>>

\* -------------------------------------------------------------- hls.js side
FreshEngine ==
  [status |-> "none", media |-> "detached", url |-> "", destroys |-> 0,
   on |-> FALSE, autoPlay |-> FALSE, cb |-> NoCallbacks]

\* hls.destroy(): detaches the media, forgets the url and removes every
\* listener (and with them the handlers' closures).
EngineDestroy(r) ==
  [r EXCEPT !.status = "destroyed", !.media = "detached", !.url = "",
            !.on = FALSE, !.autoPlay = FALSE, !.cb = NoCallbacks,
            !.destroys = @ + 1]

Live(e) == eng[e].status = "live"
Constructed == {e \in Engines : eng[e].status # "none"}

\* ------------------------------------------------------------ pure helpers
Absent == [video |-> NoVideo, hls |-> NoEngine]

\* if (playerRef) playerRef.current = ... else internalPlayerRef.current = ...
TargetRef(p) == IF p.playerRef # NoRef THEN p.playerRef ELSE Internal

\* cb?.(...): the call happens only when the callback prop is defined.
Callback(cb, call) == IF cb # NoCallbacks THEN <<call>> ELSE <<>>

DefaultConfig == [k \in {"enableWorker", "lowLatencyMode"} |->
                    IF k = "enableWorker" THEN 1 ELSE 0]

\* The caller's hlsConfig objects; an omitted prop is the default {}.
ConfigOf(id) ==
  CASE id = "cfg1" -> [k \in {"lowLatencyMode", "backBufferLength"} |->
                         IF k = "lowLatencyMode" THEN 1 ELSE 90]
    [] id = "cfg2" -> [k \in {"enableWorker"} |-> 0]
    [] OTHER -> [k \in {} |-> 0]

\* { ...hlsConfig, enableWorker: true, lowLatencyMode: false }: the spread
\* written before the defaults.
MergeConfigDefaultsLast(c) ==
  [k \in DOMAIN DefaultConfig \cup DOMAIN c |->
     IF k \in DOMAIN DefaultConfig THEN DefaultConfig[k] ELSE c[k]]

\* { enableWorker: true, lowLatencyMode: false, ...hlsConfig }
MergeConfig(c) ==
  [k \in DOMAIN DefaultConfig \cup DOMAIN c |->
     IF k \in DOMAIN c THEN c[k] ELSE DefaultConfig[k]]

\* <video {...props} controls={true} />: controls written after the spread.
RenderVideoControlsLast(r) ==
  [k \in {"controls"} \cup DOMAIN r |-> IF k = "controls" THEN "true" ELSE r[k]]

\* <video ref={videoRef} controls={true} {...props} />
RenderVideo(r) ==
  [k \in {"controls"} \cup DOMAIN r |-> IF k \in DOMAIN r THEN r[k] ELSE "true"]

TypeOK ==
  /\ hlsSupported \in BOOLEAN /\ canPlay \in BOOLEAN
  /\ pc \in {"init", "idle", "pending", "flush", "unmounted"}
  /\ props \in PropsSet /\ bound \in PropsSet
  /\ videoRef \in {NoVideo, Video} /\ depVideo \in {NoVideo, Video}
  /\ videoSrc \in Srcs \cup {""}
  /\ hlsRef \in Engines \cup {NoEngine}
  /\ DOMAIN eng = Engines
  /\ handle \in [Handles -> [video : {NoVideo, Video}, hls : Engines \cup {NoEngine}]]
  /\ binds \in 0..MaxBinds /\ capErrors \in 0..MaxBinds
  /\ Len(plays) <= MaxPlays
  /\ uncaught \in BOOLEAN
  /\ rest \in RestPropsSet
  /\ DOMAIN rendered \subseteq AttrNames

\* The component before its first render, given the caller's attributes.
InitWith(attrs) ==
  /\ rest \in attrs
  /\ rendered = NoAttrs
  /\ hlsSupported \in BOOLEAN
  /\ canPlay \in (IF hlsSupported THEN {FALSE} ELSE BOOLEAN)
  /\ pc = "init"
  /\ todo = <<>>
  /\ props = FirstProps
  /\ bound = FirstProps
  /\ videoRef = NoVideo
  /\ depVideo = NoVideo
  /\ videoSrc = ""
  /\ hlsRef = NoEngine
  /\ eng = [e \in Engines |-> FreshEngine]
  /\ handle = [h \in Handles |-> Absent]
  /\ binds = 0
  /\ capErrors = 0
  /\ plays = <<>>
  /\ uncaught = FALSE
  /\ calls = <<>>

\* The binding does not read the pass-through attributes: its behaviours
\* are explored with none supplied.
Init == InitWith({NoAttrs})

\* ------------------------------------------------------- first effect body
\* destroyHls without the hls.destroy() call: the reference is dropped only.
DestroyHlsDropsRefOnly(hr, es) ==
  [hlsRef |-> NoEngine, eng |-> es, calls |-> <<>>, threw |-> FALSE]

\* destroyHls without hlsRef.current = null.
DestroyHlsKeepsRef(hr, es) ==
  IF hr # NoEngine
    THEN [hlsRef |-> hr,
          eng |-> [es EXCEPT ![hr] = EngineDestroy(@)],
          calls |-> <<[op |-> "destroy", eng |-> hr]>>,
          threw |-> FALSE]
    ELSE [hlsRef |-> hr, eng |-> es, calls |-> <<>>, threw |-> FALSE]

\* const destroyHls = () => { if (hlsRef.current) { destroy(); = null } }
\* threw: the call raised (a method call on null); the guard rules it out.
DestroyHls(hr, es) ==
  IF hr # NoEngine
    THEN [hlsRef |-> NoEngine,
          eng |-> [es EXCEPT ![hr] = EngineDestroy(@)],
          calls |-> <<[op |-> "destroy", eng |-> hr]>>,
          threw |-> FALSE]
    ELSE [hlsRef |-> hr, eng |-> es, calls |-> <<>>, threw |-> FALSE]

\* initHls without the Hls.isSupported() test.
BranchAlwaysHls(sup, can, vref) == IF vref = NoVideo THEN "skip" ELSE "hls"

\* initHls without the canPlayType branch.
BranchNoNative(sup, can, vref) ==
  IF vref = NoVideo THEN "skip"
  ELSE IF sup THEN "hls"
  ELSE "unsupported"

\* The branch initHls takes.
Branch(sup, can, vref) ==
  IF vref = NoVideo THEN "skip"
  ELSE IF sup THEN "hls"
  ELSE IF can THEN "native"
  ELSE "unsupported"

\* playerRef.current = { video: videoRef.current, hls: hls } (or the internal one)
PopulateHandle(h, p, vref, e) ==
  [h EXCEPT ![TargetRef(p)] = [video |-> vref, hls |-> e]]

\* hls = new Hls({...}); hls.on(...) x4: the handlers close over this
\* render's autoPlay and callbacks.
EngineConstruct(p) ==
  [FreshEngine EXCEPT !.status = "live", !.on = TRUE,
                      !.autoPlay = p.autoPlay, !.cb = p.cb]

\* hls.attachMedia(videoRef.current); hls.loadSource(src)
EngineAttachLoad(r, src) == [r EXCEPT !.media = "attaching", !.url = src]

\* initHls with attachMedia and loadSource written before the hls.on calls.
InitHlsCallsAttachFirst(p, e, vref) ==
  <<[op |-> "new Hls", eng |-> e, config |-> MergeConfig(ConfigOf(p.hlsConfig))],
    [op |-> "hlsRef=", eng |-> e],
    [op |-> "playerRef=", eng |-> e, ref |-> TargetRef(p), video |-> vref],
    [op |-> "attachMedia", eng |-> e, video |-> vref],
    [op |-> "loadSource", eng |-> e, url |-> p.src],
    [op |-> "on", eng |-> e, event |-> "hlsMediaAttached"],
    [op |-> "on", eng |-> e, event |-> "hlsManifestParsed"],
    [op |-> "on", eng |-> e, event |-> "hlsError"],
    [op |-> "on", eng |-> e, event |-> "hlsLevelSwitched"]>>
  \o Callback(p.cb, [op |-> "onHlsInit", eng |-> e])
  \o Callback(p.cb, [op |-> "onHlsReady", eng |-> e, video |-> vref])

\* The calls and reference writes of initHls's software branch, in program
\* order.
InitHlsCalls(p, e, vref) ==
  <<[op |-> "new Hls", eng |-> e, config |-> MergeConfig(ConfigOf(p.hlsConfig))],
    [op |-> "hlsRef=", eng |-> e],
    [op |-> "playerRef=", eng |-> e, ref |-> TargetRef(p), video |-> vref],
    [op |-> "on", eng |-> e, event |-> "hlsMediaAttached"],
    [op |-> "on", eng |-> e, event |-> "hlsManifestParsed"],
    [op |-> "on", eng |-> e, event |-> "hlsError"],
    [op |-> "on", eng |-> e, event |-> "hlsLevelSwitched"],
    [op |-> "attachMedia", eng |-> e, video |-> vref],
    [op |-> "loadSource", eng |-> e, url |-> p.src]>>
  \o Callback(p.cb, [op |-> "onHlsInit", eng |-> e])
  \o Callback(p.cb, [op |-> "onHlsReady", eng |-> e, video |-> vref])

\* The trace of a flush: its steps' calls, in order; the first step of a
\* flush starts the trace.
Trace(new) == IF pc = "pending" THEN new ELSE calls \o new

\* After a step of the flush: on to the next step, or the flush is over.
Advance ==
  /\ todo' = Tail(todo)
  /\ pc' = IF Tail(todo) # <<>> THEN "flush"
           ELSE IF videoRef = NoVideo THEN "unmounted" ELSE "idle"

Flushing(step) == pc \in {"pending", "flush"} /\ todo # <<>> /\ Head(todo) = step

NextEngine == Cardinality(Constructed) + 1

\* useEffect(() => { ...; initHls(); return cleanup }, [src, ...]): the body.
InitHls ==
  /\ Flushing("effect1")
  /\ binds < MaxBinds
  /\ binds' = binds + 1
  /\ bound' = props
  /\ LET b == Branch(hlsSupported, canPlay, videoRef)
         e == NextEngine
     IN
       CASE b = "hls" ->
              /\ e \in Engines
              /\ eng' = [eng EXCEPT ![e] = EngineAttachLoad(EngineConstruct(props), props.src)]
              /\ hlsRef' = e
              /\ handle' = PopulateHandle(handle, props, videoRef, e)
              /\ calls' = Trace(InitHlsCalls(props, e, videoRef))
              /\ UNCHANGED <<videoSrc, capErrors>>
         [] b = "native" ->
              /\ videoSrc' = props.src
              /\ calls' = Trace(<<[op |-> "video.src=", url |-> props.src]>>)
              /\ UNCHANGED <<eng, hlsRef, handle, capErrors>>
         [] b = "unsupported" ->
              /\ capErrors' = capErrors + 1
              /\ calls' = Trace(<<[op |-> "console.error",
                                   msg |-> "HLS is not supported in this browser"]>>)
              /\ UNCHANGED <<eng, hlsRef, handle, videoSrc>>
         [] OTHER ->
              /\ calls' = Trace(<<>>)
              /\ UNCHANGED <<eng, hlsRef, handle, videoSrc, capErrors>>
  /\ Advance
  /\ UNCHANGED <<rest, rendered, hlsSupported, canPlay, props, videoRef, depVideo, plays, uncaught>>

\* A cleanup that clears the engine field only.
ResetHandleHlsOnly(h, p) == [h EXCEPT ![TargetRef(p)].hls = NoEngine]

\* A cleanup that always resets the internal container.
ResetHandleInternalOnly(h, p) == [h EXCEPT ![Internal] = Absent]

\* playerRef.current = { video: null, hls: null } (or the internal one)
ResetHandle(h, p) == [h EXCEPT ![TargetRef(p)] = Absent]

\* The cleanup returned by the first effect: it closes over the props of
\* the render whose effect it cleans up.
Cleanup ==
  /\ Flushing("cleanup")
  /\ LET d == DestroyHls(hlsRef, eng) IN
       /\ hlsRef' = d.hlsRef
       /\ eng' = d.eng
       /\ calls' = Trace(<<[op |-> "cleanup", src |-> bound.src]>> \o d.calls)
       /\ uncaught' = (uncaught \/ d.threw)
  /\ handle' = ResetHandle(handle, bound)
  /\ Advance
  /\ UNCHANGED <<rest, rendered, hlsSupported, canPlay, props, bound, videoRef, depVideo,
                 videoSrc, binds, capErrors, plays>>

\* ------------------------------------------------------------ second effect
\* playerRef.current = { ...playerRef.current, video: videoRef.current }
UpdateVideo(h, p, vref) ==
  IF vref # NoVideo THEN [h EXCEPT ![TargetRef(p)].video = vref] ELSE h

VideoRefEffect ==
  /\ Flushing("effect2")
  /\ handle' = UpdateVideo(handle, props, videoRef)
  /\ calls' = Trace(<<[op |-> "effect2"]>>)
  /\ Advance
  /\ UNCHANGED <<rest, rendered, hlsSupported, canPlay, props, bound, videoRef, depVideo,
                 videoSrc, hlsRef, eng, binds, capErrors, plays, uncaught>>

\* ------------------------------------------------------------------ commits
\* The first effect's dependency list changed between two renders.  An
\* omitted hlsConfig defaults to a new {} in every render.
Effect1Changed(old, new) ==
  \/ new.src # old.src
  \/ new.autoPlay # old.autoPlay
  \/ new.hlsConfig # old.hlsConfig
  \/ new.hlsConfig = Omitted
  \/ new.cb # old.cb
  \/ new.playerRef # old.playerRef

\* [videoRef.current, playerRef]
Effect2Changed(old, new, oldDep, newDep) ==
  \/ newDep # oldDep
  \/ new.playerRef # old.playerRef

Mount(p) ==
  /\ pc = "init"
  /\ props' = p
  /\ videoRef' = Video
  /\ depVideo' = NoVideo
  /\ todo' = <<"effect1", "effect2">>
  /\ pc' = "pending"
  /\ rendered' = RenderVideo(rest)
  /\ calls' = <<>>
  /\ UNCHANGED <<rest, hlsSupported, canPlay, bound, videoSrc, hlsRef, eng, handle,
                 binds, capErrors, plays, uncaught>>

Rerender(p) ==
  /\ pc = "idle"
  /\ LET e1 == Effect1Changed(props, p)
         e2 == Effect2Changed(props, p, depVideo, videoRef)
         steps == (IF e1 THEN <<"cleanup", "effect1">> ELSE <<>>)
                  \o (IF e2 THEN <<"effect2">> ELSE <<>>)
     IN
       /\ e1 => binds < MaxBinds
       /\ todo' = steps
       /\ pc' = IF steps = <<>> THEN "idle" ELSE "pending"
  /\ props' = p
  /\ depVideo' = videoRef
  /\ rendered' = RenderVideo(rest)
  /\ calls' = <<>>
  /\ UNCHANGED <<rest, hlsSupported, canPlay, bound, videoRef, videoSrc, hlsRef, eng,
                 handle, binds, capErrors, plays, uncaught>>

Unmount ==
  /\ pc = "idle"
  /\ videoRef' = NoVideo
  /\ todo' = <<"cleanup">>
  /\ pc' = "pending"
  /\ calls' = <<>>
  /\ UNCHANGED <<rest, rendered, hlsSupported, canPlay, props, bound, depVideo, videoSrc, hlsRef,
                 eng, handle, binds, capErrors, plays, uncaught>>

\* ------------------------------------------------------------ engine events
\* A task may run now: between flushes, and not after a re-render commit.
TaskTurn == pc = "idle" \/ (pc = "pending" /\ videoRef = NoVideo)

Listening(e) == e \in Engines /\ Live(e) /\ eng[e].on /\ TaskTurn

Emit(e, event) == [op |-> "emit", eng |-> e, event |-> event]

\* hls.on(Hls.Events.MEDIA_ATTACHED, () => { onHlsMediaAttached?.() })
\* hls.js emits MEDIA_ATTACHED when the MediaSource it created in
\* attachMedia() opens: in a later task than the attachMedia() call.
MediaAttachedCalls(cb) == Callback(cb, [op |-> "onHlsMediaAttached"])

MediaAttached(e) ==
  /\ Listening(e)
  /\ eng[e].media = "attaching"
  /\ eng' = [eng EXCEPT ![e].media = "attached"]
  /\ calls' = <<Emit(e, "hlsMediaAttached")>> \o MediaAttachedCalls(eng[e].cb)
  /\ UNCHANGED <<rest, rendered, hlsSupported, canPlay, pc, todo, props, bound, videoRef, depVideo,
                 videoSrc, hlsRef, handle, binds, capErrors, plays, uncaught>>

\* MANIFEST_PARSED handler calling play() without .catch.
ManifestParsedHandlerNoCatch(ap, cb, vref, payload) ==
  [plays |-> IF ap /\ vref # NoVideo THEN <<FALSE>> ELSE <<>>,
   calls |-> (IF ap /\ vref # NoVideo THEN <<[op |-> "play"]>> ELSE <<>>)
             \o Callback(cb, [op |-> "onHlsManifestParsed", payload |-> payload])]

\* MANIFEST_PARSED handler: the play() promises it starts (with .catch
\* attached) and the calls it makes.
ManifestParsedHandler(ap, cb, vref, payload) ==
  [plays |-> IF ap /\ vref # NoVideo THEN <<TRUE>> ELSE <<>>,
   calls |-> (IF ap /\ vref # NoVideo THEN <<[op |-> "play"]>> ELSE <<>>)
             \o Callback(cb, [op |-> "onHlsManifestParsed", payload |-> payload])]

ManifestParsed(e, payload) ==
  /\ Listening(e)
  /\ eng[e].url # ""
  /\ LET r == ManifestParsedHandler(eng[e].autoPlay, eng[e].cb, videoRef, payload) IN
       /\ Len(plays \o r.plays) <= MaxPlays
       /\ plays' = plays \o r.plays
       /\ calls' = <<[op |-> "emit", eng |-> e, event |-> "hlsManifestParsed",
                      payload |-> payload]>> \o r.calls
  /\ UNCHANGED <<rest, rendered, hlsSupported, canPlay, pc, todo, props, bound, videoRef, depVideo,
                 videoSrc, hlsRef, eng, handle, binds, capErrors, uncaught>>

\* The switch of the ERROR handler with its break statements missing.
ErrorRecoveryFallThrough(e, data, hr, es) ==
  IF data.fatal
    THEN LET d == DestroyHls(hr, es)
             pre == CASE data.type = "networkError" ->
                           <<[op |-> "startLoad", eng |-> e],
                             [op |-> "recoverMediaError", eng |-> e]>>
                      [] data.type = "mediaError" ->
                           <<[op |-> "recoverMediaError", eng |-> e]>>
                      [] OTHER -> <<>>
         IN [d EXCEPT !.calls = pre \o @]
    ELSE [hlsRef |-> hr, eng |-> es, threw |-> FALSE, calls |-> <<>>]

\* The switch of the ERROR handler: what it does to hlsRef and the engines,
\* and the engine commands it issues.  startLoad and recoverMediaError go to
\* the effect's own hls; destroyHls goes through hlsRef.current.
ErrorRecovery(e, data, hr, es) ==
  IF data.fatal
    THEN CASE data.type = "networkError" ->
                [hlsRef |-> hr, eng |-> es, threw |-> FALSE,
                 calls |-> <<[op |-> "startLoad", eng |-> e]>>]
           [] data.type = "mediaError" ->
                [hlsRef |-> hr, eng |-> es, threw |-> FALSE,
                 calls |-> <<[op |-> "recoverMediaError", eng |-> e]>>]
           [] OTHER -> DestroyHls(hr, es)
    ELSE [hlsRef |-> hr, eng |-> es, threw |-> FALSE, calls |-> <<>>]

\* onHlsError called inside the else of if (data.fatal).
ErrorForwardNonFatalOnly(cb, data) ==
  IF data.fatal THEN <<>>
  ELSE Callback(cb, [op |-> "onHlsError", event |-> "hlsError", data |-> data])

\* onHlsError?.(event, data)
ErrorForward(cb, data) ==
  Callback(cb, [op |-> "onHlsError", event |-> "hlsError", data |-> data])

HlsError(e, data) ==
  /\ Listening(e)
  /\ LET r == ErrorRecovery(e, data, hlsRef, eng) IN
       /\ hlsRef' = r.hlsRef
       /\ eng' = r.eng
       /\ calls' = <<[op |-> "emit", eng |-> e, event |-> "hlsError", data |-> data]>>
                   \o r.calls \o ErrorForward(eng[e].cb, data)
       /\ uncaught' = (uncaught \/ r.threw)
  /\ UNCHANGED <<rest, rendered, hlsSupported, canPlay, pc, todo, props, bound, videoRef, depVideo,
                 videoSrc, handle, binds, capErrors, plays>>

\* hls.on(Hls.Events.LEVEL_SWITCHED, (event, data) => onHlsLevelSwitched?.(data.level))
LevelSwitchedCalls(cb, level) ==
  Callback(cb, [op |-> "onHlsLevelSwitched", level |-> level])

LevelSwitched(e, level) ==
  /\ Listening(e)
  /\ eng[e].url # ""
  /\ calls' = <<[op |-> "emit", eng |-> e, event |-> "hlsLevelSwitched",
                 level |-> level]>> \o LevelSwitchedCalls(eng[e].cb, level)
  /\ UNCHANGED <<rest, rendered, hlsSupported, canPlay, pc, todo, props, bound, videoRef, depVideo,
                 videoSrc, hlsRef, eng, handle, binds, capErrors, plays, uncaught>>

\* ------------------------------------------------------- play() settlement
\* .catch((error) => { console.error("Autoplay failed:", error) })
AutoplayCatch(caught) ==
  [uncaught |-> ~caught,
   calls |-> IF caught THEN <<[op |-> "console.error", msg |-> "Autoplay failed:"]>>
             ELSE <<>>]

PlayRejected ==
  /\ (TaskTurn \/ pc = "unmounted")
  /\ plays # <<>>
  /\ LET r == AutoplayCatch(Head(plays)) IN
       /\ uncaught' = (uncaught \/ r.uncaught)
       /\ calls' = <<[op |-> "reject"]>> \o r.calls
  /\ plays' = Tail(plays)
  /\ UNCHANGED <<rest, rendered, hlsSupported, canPlay, pc, todo, props, bound, videoRef, depVideo,
                 videoSrc, hlsRef, eng, handle, binds, capErrors>>

PlayResolved ==
  /\ (TaskTurn \/ pc = "unmounted")
  /\ plays # <<>>
  /\ plays' = Tail(plays)
  /\ calls' = <<[op |-> "resolve"]>>
  /\ UNCHANGED <<rest, rendered, hlsSupported, canPlay, pc, todo, props, bound, videoRef, depVideo,
                 videoSrc, hlsRef, eng, handle, binds, capErrors, uncaught>>

Next ==
  \/ \E p \in PropsSet : Mount(p)
  \/ \E p \in PropsSet : Rerender(p)
  \/ Unmount
  \/ Cleanup
  \/ InitHls
  \/ VideoRefEffect
  \/ \E e \in Engines : MediaAttached(e)
  \/ \E e \in Engines, d \in Payloads : ManifestParsed(e, d)
  \/ \E e \in Engines, d \in ErrorData : HlsError(e, d)
  \/ \E e \in Engines, l \in Levels : LevelSwitched(e, l)
  \/ PlayRejected
  \/ PlayResolved

Spec == Init /\ [][Next]_vars

\* The render alone: the first render, for every set of pass-through
\* attributes.
InitRender == InitWith(RestPropsSet)

NextRender == \E p \in PropsSet : Mount(p)

SpecRender == InitRender /\ [][NextRender]_vars

\* ------------------------------------------------------------------ traces
Ops(op) == {i \in 1..Len(calls) : calls[i].op = op}

Last(q) == q[Len(q)]

\* The trace is that of the handler of `event`.
Handling(event) ==
  calls # <<>> /\ calls[1].op = "emit" /\ calls[1].event = event

\* The trace is that of a flush that began with the first effect's cleanup.
FlushWithCleanup == calls # <<>> /\ calls[1].op = "cleanup"

\* The cleanup was the last thing to run.
JustCleanedUp == FlushWithCleanup /\ Last(calls).op \in {"cleanup", "destroy"}

\* ------------------------------------------------------------------ claims
\* C1: at every reachable state at most one engine instance is constructed
\* and not yet destroyed, and at most one engine has media attached (or
\* attaching) to the video element.
C1_AtMostOneLiveEngine ==
  /\ Cardinality({e \in Engines : Live(e)}) <= 1
  /\ Cardinality({e \in Engines : eng[e].media # "detached"}) <= 1
  /\ \A e \in Engines : Live(e) => hlsRef = e

\* C1 witness: a second engine is live after the first was destroyed.
C1_Witness ==
  /\ eng[1].status = "destroyed"
  /\ Live(2)
  /\ eng[2].media = "attached"

\* C2: no engine is destroyed twice; when a next engine is constructed its
\* predecessor has received exactly one destroy call, issued before the
\* construction (in a rebind flush the destroy, if any, precedes new Hls);
\* and the new engine is the one commanded to load the new src.
C2_OneDestroyBeforeNextEngine ==
  /\ \A e \in Engines : eng[e].destroys <= 1
  /\ \A e \in Engines :
       (e > 1 /\ eng[e].status # "none") =>
         eng[e - 1].status = "destroyed" /\ eng[e - 1].destroys = 1
  /\ \A e \in Engines : Live(e) => eng[e].url = bound.src
  /\ FlushWithCleanup =>
       \A j \in Ops("new Hls") :
         /\ \A k \in Ops("destroy") : k < j /\ calls[k].eng = calls[j].eng - 1
         /\ Cardinality(Ops("destroy")) <= 1
         /\ Cardinality(Ops("new Hls")) = 1
         /\ \E k \in Ops("loadSource") :
              k > j /\ calls[k].eng = calls[j].eng /\ calls[k].url = bound.src
         /\ Cardinality(Ops("loadSource")) = 1

\* C2 witness: src went from "a.m3u8" to "b.m3u8"; the flush destroyed engine
\* 1, then constructed engine 2 and had it load "b.m3u8".
C2_Witness ==
  /\ hlsSupported
  /\ FlushWithCleanup
  /\ Len(calls) >= 3
  /\ calls[1].src = "a.m3u8"
  /\ calls[2] = [op |-> "destroy", eng |-> 1]
  /\ calls[3].op = "new Hls" /\ calls[3].eng = 2
  /\ [op |-> "loadSource", eng |-> 2, url |-> "b.m3u8"] \in {calls[i] : i \in Ops("loadSource")}
  /\ eng[1].destroys = 1
  /\ hlsRef = 2

\* C3: right after the first effect's cleanup has run, the handle that was
\* the write target of the bind torn down has video and hls absent, in the
\* software, native and unsupported branches alike.
C3_TeardownResetsHandle ==
  JustCleanedUp => handle[TargetRef(bound)] = Absent

\* C3 witness: a teardown of a native or unsupported bind whose target was
\* the caller's playerRef, before the next bind.
C3_Witness ==
  /\ JustCleanedUp
  /\ ~hlsSupported
  /\ bound.playerRef # NoRef
  /\ pc = "flush"

\* The engine commands and console output of the trace: everything but the
\* event that started it and the caller's callbacks.
Commands ==
  SelectSeq(calls, LAMBDA c : c.op \notin {"emit", "onHlsError"})

\* C4 (as claimed): when onHlsError is invoked for a fatal error that is
\* neither a network nor a media error, the engine is destroyed and the
\* active handle has hls and video absent.
C4_HandleResetBeforeErrorCallback ==
  (/\ Handling("hlsError")
   /\ calls[1].data.fatal
   /\ calls[1].data.type \notin {"networkError", "mediaError"}
   /\ Ops("onHlsError") # {})
  => /\ eng[calls[1].eng].status = "destroyed"
     /\ hlsRef = NoEngine
     /\ Last(calls).op = "onHlsError"
     /\ handle[TargetRef(bound)] = Absent

\* C5: the ERROR handler issues exactly the commands of the recovery table:
\* none for a non-fatal error, one startLoad for a fatal network error, one
\* recoverMediaError for a fatal media error, one destroy (of the engine)
\* for any other fatal error; and nothing is thrown.
C5_RecoveryTable ==
  /\ ~uncaught
  /\ Handling("hlsError") =>
       LET e == calls[1].eng
           d == calls[1].data
       IN /\ Commands =
               (IF ~d.fatal THEN <<>>
                ELSE IF d.type = "networkError" THEN <<[op |-> "startLoad", eng |-> e]>>
                ELSE IF d.type = "mediaError" THEN <<[op |-> "recoverMediaError", eng |-> e]>>
                ELSE <<[op |-> "destroy", eng |-> e]>>)
          /\ IF d.fatal /\ d.type \notin {"networkError", "mediaError"}
               THEN eng[e].status = "destroyed" /\ eng[e].destroys = 1 /\ hlsRef = NoEngine
               ELSE Live(e) /\ eng[e].destroys = 0 /\ hlsRef = e

\* C5 witness: a fatal media error was handled by one recoverMediaError.
C5_Witness ==
  /\ Handling("hlsError")
  /\ calls[1].data = [fatal |-> TRUE, type |-> "mediaError"]
  /\ Commands = <<[op |-> "recoverMediaError", eng |-> calls[1].eng]>>

\* C6: with onHlsError supplied, every error event ends in exactly one
\* onHlsError call carrying the event and its payload, made after the
\* recovery command of that event; without it no such call is made.
C6_ErrorForwardedOnceAfterRecovery ==
  Handling("hlsError") =>
    IF bound.cb # NoCallbacks
      THEN /\ Cardinality(Ops("onHlsError")) = 1
           /\ Last(calls) = [op |-> "onHlsError", event |-> calls[1].event,
                             data |-> calls[1].data]
      ELSE Ops("onHlsError") = {}

\* C6 witness: a fatal network error: startLoad, then onHlsError.
C6_Witness ==
  /\ Handling("hlsError")
  /\ calls[1].data = [fatal |-> TRUE, type |-> "networkError"]
  /\ Len(calls) = 3
  /\ calls[2].op = "startLoad"
  /\ calls[3].op = "onHlsError"

Unsupported == ~hlsSupported /\ ~canPlay

\* C7 (as claimed): with neither playback path, no engine is constructed,
\* every handle stays absent/absent and one capability error is logged per
\* bind attempt.
C7_UnsupportedHandleStaysAbsent ==
  Unsupported =>
    /\ Constructed = {}
    /\ \A h \in Handles : handle[h] = Absent
    /\ capErrors = binds
    /\ ~uncaught

\* C7 (amended): with neither playback path, no engine is constructed, the
\* hls field of every handle stays absent, one capability error is logged
\* per bind attempt and nothing is thrown; the video field is not claimed
\* to stay absent.
C7_UnsupportedNoEngine ==
  Unsupported =>
    /\ Constructed = {}
    /\ hlsRef = NoEngine
    /\ \A h \in Handles : handle[h].hls = NoEngine
    /\ capErrors = binds
    /\ ~uncaught

\* C7 witness: the second bind attempt of an unsupported browser has logged
\* its error, and the handle holds the video element.
C7_Witness ==
  /\ Unsupported
  /\ binds = 2
  /\ capErrors = 2
  /\ pc = "idle"
  /\ handle[TargetRef(props)].video = Video

\* C8: the MANIFEST_PARSED handler calls onHlsManifestParsed (when supplied)
\* exactly once with the payload, after play() when autoPlay is set; a
\* rejected play() is caught and logged; nothing is thrown.
C8_ManifestForwarded ==
  /\ ~uncaught
  /\ Handling("hlsManifestParsed") =>
       /\ IF bound.cb # NoCallbacks
            THEN /\ Cardinality(Ops("onHlsManifestParsed")) = 1
                 /\ Last(calls) = [op |-> "onHlsManifestParsed",
                                   payload |-> calls[1].payload]
            ELSE Ops("onHlsManifestParsed") = {}
       /\ (bound.autoPlay /\ videoRef # NoVideo) => calls[2].op = "play"
  /\ (calls # <<>> /\ calls[1].op = "reject") =>
       calls = <<[op |-> "reject"],
                 [op |-> "console.error", msg |-> "Autoplay failed:"]>>

\* The rejection of a play() promise changes nothing of the binding.
C8_RejectionFrame ==
  [][(plays # <<>> /\ plays' = Tail(plays) /\ calls' # <<>> /\ calls'[1].op = "reject")
       => UNCHANGED <<hlsRef, eng, handle, videoSrc, videoRef, props, bound,
                      pc, todo, binds, capErrors>>]_vars

\* C8: both of the above.
C8_AutoplayRejectionAbsorbed == []C8_ManifestForwarded /\ C8_RejectionFrame

\* C8 witness: a play() started by an autoPlay bind was rejected after the
\* component unmounted, and the rejection was logged.
C8_Witness ==
  /\ pc = "unmounted"
  /\ bound.autoPlay
  /\ calls = <<[op |-> "reject"],
               [op |-> "console.error", msg |-> "Autoplay failed:"]>>

NativeOnly == ~hlsSupported /\ canPlay

\* C9: with native playback only, every bind assigns its src to the video
\* element, no engine is constructed, onHlsInit and onHlsReady are never
\* called and the hls field of every handle stays absent.
C9_NativeBranch ==
  NativeOnly =>
    /\ binds > 0 => videoSrc = bound.src
    /\ Constructed = {}
    /\ hlsRef = NoEngine
    /\ \A h \in Handles : handle[h].hls = NoEngine
    /\ Ops("onHlsInit") = {} /\ Ops("onHlsReady") = {} /\ Ops("new Hls") = {}
    /\ capErrors = 0

\* C9 witness: a rebind with callbacks supplied assigned "b.m3u8" natively.
C9_Witness ==
  /\ NativeOnly
  /\ binds = 2
  /\ bound.cb # NoCallbacks
  /\ videoSrc = "b.m3u8"
  /\ Ops("video.src=") # {}

\* C10 (as claimed): whenever onHlsReady is invoked, the engine it is given
\* has already emitted its media-attached event.
C10_ReadyAfterMediaAttached ==
  \A i \in Ops("onHlsReady") : eng[calls[i].eng].media = "attached"

\* C11 (as claimed): a re-render in which src, the caller's configuration
\* (an omitted hlsConfig included), autoPlay, playerRef and every callback
\* are unchanged destroys no engine: whenever the first effect's cleanup has
\* just destroyed the engine ahead of a rebind, some input of the new render
\* differs from the one the engine was bound with.
C11_NoRebindWithoutTrigger ==
  (JustCleanedUp /\ pc = "flush" /\ Ops("destroy") # {}) => props # bound

\* C12: the configuration given to the engine constructor has every key of
\* the caller's hlsConfig with the caller's value, the defaults enableWorker
\* = true and lowLatencyMode = false for the keys the caller left out, and
\* no other key.
C12_ConfigMergedOverDefaults ==
  \A j \in Ops("new Hls") :
    LET given == ConfigOf(bound.hlsConfig)
        cfg == calls[j].config
    IN /\ \A k \in DOMAIN given : k \in DOMAIN cfg /\ cfg[k] = given[k]
       /\ "enableWorker" \notin DOMAIN given =>
            "enableWorker" \in DOMAIN cfg /\ cfg["enableWorker"] = 1
       /\ "lowLatencyMode" \notin DOMAIN given =>
            "lowLatencyMode" \in DOMAIN cfg /\ cfg["lowLatencyMode"] = 0
       /\ DOMAIN cfg = DOMAIN given \cup {"enableWorker", "lowLatencyMode"}

\* C12 witness: an engine constructed with a caller configuration that
\* overrides lowLatencyMode, adds a key and leaves enableWorker out.
C12_Witness ==
  \E j \in Ops("new Hls") :
    /\ bound.hlsConfig = "cfg1"
    /\ calls[j].config["lowLatencyMode"] = 1
    /\ calls[j].config["backBufferLength"] = 90
    /\ calls[j].config["enableWorker"] = 1

Rendered == "controls" \in DOMAIN rendered

\* C13 (as claimed): the rendered video element has controls enabled for
\* every set of pass-through attributes, a caller-supplied controls = false
\* included, and every other pass-through attribute is applied unchanged.
C13_ControlsAlwaysOn ==
  Rendered =>
    /\ rendered["controls"] = "true"
    /\ \A k \in DOMAIN rest \ {"controls"} : k \in DOMAIN rendered /\ rendered[k] = rest[k]

\* C13 (amended): controls is enabled when the caller passes no controls
\* attribute and has the caller's value when one is passed; every other
\* pass-through attribute is applied unchanged and nothing else is set.
C13_ControlsDefaultOn ==
  Rendered =>
    /\ rendered["controls"] =
         (IF "controls" \in DOMAIN rest THEN rest["controls"] ELSE "true")
    /\ \A k \in DOMAIN rest \ {"controls"} : k \in DOMAIN rendered /\ rendered[k] = rest[k]
    /\ DOMAIN rendered = DOMAIN rest \cup {"controls"}

\* C13 witness: an element rendered for a caller that passes controls =
\* false and loop = true.
C13_Witness ==
  /\ Rendered
  /\ "controls" \in DOMAIN rest /\ rest["controls"] = "false"
  /\ "loop" \in DOMAIN rest /\ rest["loop"] = "true"
  /\ rendered["controls"] = "false"
  /\ rendered["loop"] = "true"

\* The steps of initHls's software branch, in the order claimed.
BindSteps(cb) ==
  <<"new Hls", "hlsRef=", "playerRef=", "on", "on", "on", "on",
    "attachMedia", "loadSource">>
  \o (IF cb # NoCallbacks THEN <<"onHlsInit", "onHlsReady">> ELSE <<>>)

SubscribedEvents ==
  <<"hlsMediaAttached", "hlsManifestParsed", "hlsError", "hlsLevelSwitched">>

\* C14: a software bind performs, each once and in this order: construct
\* the engine, store it in hlsRef, populate the handle with engine and
\* video, subscribe to media attached, manifest parsed, error and level
\* switched, attachMedia, loadSource(src), onHlsInit(engine),
\* onHlsReady(engine, video); the callbacks find the handle populated.
C14_BindOrder ==
  \A j \in Ops("new Hls") :
    LET e == calls[j].eng
        steps == BindSteps(bound.cb)
    IN /\ Len(calls) >= j + Len(steps) - 1
       /\ \A i \in 1..Len(steps) :
            calls[j + i - 1].op = steps[i] /\ calls[j + i - 1].eng = e
       /\ \A i \in 1..4 : calls[j + 2 + i].event = SubscribedEvents[i]
       /\ calls[j + 2].ref = TargetRef(bound) /\ calls[j + 2].video = Video
       /\ calls[j + 7].video = Video
       /\ calls[j + 8].url = bound.src
       /\ bound.cb # NoCallbacks => calls[j + 10].video = Video
       /\ \A op \in {"new Hls", "hlsRef=", "playerRef=", "attachMedia", "loadSource"} :
            Cardinality(Ops(op)) = 1
       /\ Cardinality(Ops("on")) = 4
       /\ Cardinality(Ops("onHlsInit")) = (IF bound.cb # NoCallbacks THEN 1 ELSE 0)
       /\ Cardinality(Ops("onHlsReady")) = (IF bound.cb # NoCallbacks THEN 1 ELSE 0)
       /\ hlsRef = e
       /\ handle[TargetRef(bound)] = [video |-> Video, hls |-> e]
       /\ eng[e].on /\ eng[e].url = bound.src

\* C14 witness: a rebind onto the caller's playerRef with callbacks
\* supplied has just run initHls for engine 2.
C14_Witness ==
  /\ FlushWithCleanup
  /\ bound.playerRef = "refA"
  /\ Last(calls) = [op |-> "onHlsReady", eng |-> 2, video |-> Video]
  /\ Ops("onHlsInit") # {}

\* C15: an engine receives no destroy call while it is live and exactly one
\* once it is destroyed, whatever destroyed it (the fatal-error path, a
\* rebind or the unmount); after the teardown of a rebind or of the unmount
\* every constructed engine is destroyed and hlsRef.current is null.
C15_ExactlyOneDestroyPerEngine ==
  /\ \A e \in Engines :
       eng[e].destroys = (IF eng[e].status = "destroyed" THEN 1 ELSE 0)
  /\ (pc = "unmounted" \/ JustCleanedUp) =>
       /\ hlsRef = NoEngine
       /\ \A e \in Constructed : eng[e].status = "destroyed"

\* C15 witness: the component has unmounted; its engine had been destroyed
\* by the fatal-error path, and the unmount teardown issued no second destroy.
C15_Witness ==
  /\ pc = "unmounted"
  /\ hlsSupported
  /\ Len(calls) = 1 /\ calls[1].op = "cleanup"
  /\ eng[1].status = "destroyed" /\ eng[1].destroys = 1

Populated == {h \in Handles : handle[h] # Absent}

\* C16: at most one of the caller's refs and the internal container holds a
\* non-absent field at any time, and it is the one selected by the bind in
\* force; a handle selected by an earlier bind has been reset.
C16_OneHandlePopulated ==
  /\ Cardinality(Populated) <= 1
  /\ Populated \subseteq {TargetRef(bound)}

\* C16 witness: a third bind, a rebind that selected the caller's refB, has
\* populated refB; the other caller ref and the internal container are
\* absent/absent.
C16_Witness ==
  /\ binds = 3
  /\ bound.playerRef = "refB"
  /\ handle["refB"] = [video |-> Video, hls |-> 3]
  /\ FlushWithCleanup
  /\ handle["refA"] = Absent /\ handle[Internal] = Absent

\* C17 (as claimed): a handle's hls field is non-absent exactly when
\* hlsRef.current holds a live engine, and then it is that engine; no handle
\* ever holds a destroyed engine.
C17_HandleEngineIsLive ==
  /\ \A h \in Handles :
       handle[h].hls # NoEngine => (hlsRef = handle[h].hls /\ Live(handle[h].hls))
  /\ hlsRef # NoEngine => handle[TargetRef(bound)].hls = hlsRef

\* C18 (as claimed): while the component is mounted and the effects of the
\* latest render have run, the active handle's video field is the rendered
\* video element, in every branch and after any number of rebinds.
C18_HandleVideoWhileMounted ==
  pc = "idle" => handle[TargetRef(props)].video = Video

\* C19: the recovery commands of an error event go to the engine that
\* emitted it: startLoad, recoverMediaError and destroy name the emitting
\* engine, and no other engine is live or loses its listeners.
C19_RecoveryOnEmittingEngine ==
  Handling("hlsError") =>
    LET e == calls[1].eng IN
      /\ \A i \in 1..Len(calls) :
           calls[i].op \in {"startLoad", "recoverMediaError", "destroy"} =>
             calls[i].eng = e
      /\ \A o \in Engines \ {e} : ~Live(o)
      /\ \A o \in Engines : o > e => eng[o].status = "none"
      /\ hlsRef \in {e, NoEngine}

\* C19 witness: after a rebind, engine 2 emitted a fatal error that is
\* neither network nor media, and the destroy went to engine 2.
C19_Witness ==
  /\ Handling("hlsError")
  /\ calls[1].eng = 2
  /\ calls[2] = [op |-> "destroy", eng |-> 2]
  /\ eng[1].destroys = 1 /\ eng[2].destroys = 1

====
